---- MODULE Spec2Model ----
(***************************************************************************)
(* Model of the python-project-setup repository: the reader and writer     *)
(* factories (backend/src/data) and the configuration factory              *)
(* (config/name_space.py).                                                 *)
(*                                                                         *)
(* Python strings that the code transforms (lower, upper, capitalize,      *)
(* split, join) are sequences of one-character strings.  Python objects    *)
(* are records [t, a, ks, v]: a type tag, an atom, the keys of a mapping   *)
(* and the children of a container.  A raised exception is the object      *)
(* tagged "raise" whose atom is the exception's class.                     *)
(*                                                                         *)
(* The reader factory, the writer factory and the configuration factory    *)
(* share no state and never call one another, so each has a specification  *)
(* of its own (SpecReader, SpecWriter, SpecConfig), and dict_to_namespace, *)
(* a public method, a fourth (SpecNamespace).  Every call is one action;   *)
(* op, args and ret record the call last made and the remaining variables  *)
(* what it did.                                                            *)
(***************************************************************************)
EXTENDS Integers, Sequences, FiniteSets, TLC

VARIABLES
    files,          \* the data files on disk: path -> "missing" or [fmt, table]
    cfg,            \* self.cfg of the reader / writer factory
    op,             \* the call last made: its name
    args,           \* ... and its arguments
    ret,            \* what the call returned or raised
    made,           \* handler objects constructed during the call
    handled,        \* handler methods invoked during the call
    libcalls,       \* library file accesses made during the call
    written,        \* paths written during the call
    disk,           \* the configuration inputs on disk: [yaml, xlsx, env]
    factory,        \* the attributes of the ConfigFactory object
    first,          \* what the first initialize() call returned or raised
    again           \* TRUE once initialize() was called a second time

vars == <<files, cfg, op, args, ret, made, handled, libcalls, written,
          disk, factory, first, again>>

config_vars == <<disk, factory, first, again>>

data_vars == <<files, cfg, made, handled, libcalls, written>>

(***************************************************************************)
(* Strings                                                                 *)
(***************************************************************************)
UpperChars == <<"A","B","C","D","E","F","G","H","I","J","K","L","M",
                "N","O","P","Q","R","S","T","U","V","W","X","Y","Z">>

LowerChars == <<"a","b","c","d","e","f","g","h","i","j","k","l","m",
                "n","o","p","q","r","s","t","u","v","w","x","y","z">>

\* the case mappings of the ASCII letters; every other character maps to itself
ToLower == [c \in {UpperChars[i] : i \in DOMAIN UpperChars} |->
               LowerChars[CHOOSE i \in DOMAIN UpperChars : UpperChars[i] = c]]

ToUpper == [c \in {LowerChars[i] : i \in DOMAIN LowerChars} |->
               UpperChars[CHOOSE i \in DOMAIN LowerChars : LowerChars[i] = c]]

\* one character of str.lower() / str.upper()
LowerChar(c) == IF c \in DOMAIN ToLower THEN ToLower[c] ELSE c

UpperChar(c) == IF c \in DOMAIN ToUpper THEN ToUpper[c] ELSE c

\* str.lower()
lower(s) == [i \in DOMAIN s |-> LowerChar(s[i])]

\* str.upper()
upper(s) == [i \in DOMAIN s |-> UpperChar(s[i])]

\* str.capitalize(): first character upper-cased, the rest lower-cased
capitalize(s) == [i \in DOMAIN s |-> IF i = 1 THEN UpperChar(s[i]) ELSE LowerChar(s[i])]

(***************************************************************************)
(* Objects                                                                 *)
(***************************************************************************)
Obj(t, a, ks, v) == [t |-> t, a |-> a, ks |-> ks, v |-> v]

Atom(t, a) == Obj(t, a, <<>>, <<>>)

None == Atom("none", <<>>)

Raise(cls) == Atom("raise", <<cls>>)

IsRaise(x) == x.t = "raise"

StrKey(k) == [kt |-> "str", k |-> k]

IntKey(k) == [kt |-> "int", k |-> k]

(***************************************************************************)
(* The data files and the tabular library (pandas)                         *)
(***************************************************************************)
Paths == {"data/a.csv", "data/b.xlsx"}

Tables == {"t1", "t2"}

DataFrame(tbl) == Atom("df", <<tbl>>)

FileStates == {[fmt |-> "missing", table |-> "t1"]}
              \cup [fmt : {"csv", "excel"}, table : Tables]

\* the keyword options a caller may pass through
Options == {<<>>, <<"sep">>, <<"sheet_name">>, <<"sep", "sheet_name">>}

ReadCsvOptions == {"sep"}

ReadExcelOptions == {"sheet_name"}

\* pd.read_csv(path, **kwargs) / pd.read_excel(path, **kwargs)
pd_read(fmt, accepted, fs, path, kwargs) ==
    IF \E i \in DOMAIN kwargs : kwargs[i] \notin accepted THEN Raise("TypeError")
    ELSE IF fs[path].fmt = "missing" THEN Raise("FileNotFoundError")
    ELSE IF fs[path].fmt # fmt THEN Raise("ParserError")
    ELSE DataFrame(fs[path].table)

pd_read_csv(fs, path, kwargs) == pd_read("csv", ReadCsvOptions, fs, path, kwargs)

pd_read_excel(fs, path, kwargs) == pd_read("excel", ReadExcelOptions, fs, path, kwargs)

(***************************************************************************)
(* Readers: backend/src/data/reader                                        *)
(***************************************************************************)
csv == <<"c","s","v">>

excel == <<"e","x","c","e","l">>

\* the format names callers pass
Sources == {csv, <<"C","S","V">>, <<"C","s","v">>, <<"c","S","v">>,
            excel, <<"E","X","C","E","L">>, <<"E","x","c","e","L">>,
            <<"j","s","o","n">>, <<"x","l","s">>, <<"c","s","v"," ">>, <<>>}

\* the configuration objects a factory may be constructed with
Cfgs == {"cfgA", "cfgB"}

\* IReader.__init__(cfg): the handler keeps the reference it is given
IReader(cls, c) == [cls |-> cls, cfg |-> c]

\* CSVReader.read(path, **kwargs): the frame is bound to a local and dropped
CSVReader_read(fs, path, kwargs) ==
    LET df == pd_read_csv(fs, path, kwargs)
    IN  [calls |-> <<[fn |-> "read_csv", path |-> path, kwargs |-> kwargs]>>,
         ret   |-> IF IsRaise(df) THEN df ELSE None]

\* ExcelReader.read(path, **kwargs): the frame is bound to a local and dropped
ExcelReader_read(fs, path, kwargs) ==
    LET df == pd_read_excel(fs, path, kwargs)
    IN  [calls |-> <<[fn |-> "read_excel", path |-> path, kwargs |-> kwargs]>>,
         ret   |-> IF IsRaise(df) THEN df ELSE None]

\* the dispatch table of DataReaderFactory.read
reader_dict == [k \in {csv, excel} |-> IF k = csv THEN "CSVReader" ELSE "ExcelReader"]

\* the key as given, not lower-cased
reader_key_exact(source) == source

\* the key DataReaderFactory.read looks up: source.lower()
reader_key(source) == lower(source)

\* a lookup that falls back to the CSV reader
reader_lookup_default(key) ==
    IF key \in DOMAIN reader_dict THEN <<reader_dict[key]>> ELSE <<"CSVReader">>

\* reader_dict[key]: the class, or nothing when the subscript raises KeyError
reader_lookup(key) == IF key \in DOMAIN reader_dict THEN <<reader_dict[key]>> ELSE <<>>

Handler_read(cls, fs, path, kwargs) ==
    IF cls = "CSVReader" THEN CSVReader_read(fs, path, kwargs)
                         ELSE ExcelReader_read(fs, path, kwargs)

\* DataReaderFactory.read(source, path, **kwargs)
DataReaderFactory_read(source, path, kwargs) ==
    LET found == reader_lookup(reader_key(source))
    IN  /\ op' = "DataReaderFactory.read"
        /\ args' = [source |-> source, path |-> path, kwargs |-> kwargs]
        /\ IF found = <<>>
           THEN /\ ret' = Raise("KeyError")
                /\ made' = <<>>
                /\ handled' = <<>>
                /\ libcalls' = <<>>
           ELSE LET r == Handler_read(found[1], files, path, kwargs)
                IN  /\ made' = <<IReader(found[1], cfg)>>
                    /\ handled' = <<[cls |-> found[1], method |-> "read",
                                     path |-> path, kwargs |-> kwargs]>>
                    /\ libcalls' = r.calls
                    /\ ret' = r.ret
        /\ written' = <<>>
        /\ UNCHANGED <<files, cfg>>
        /\ UNCHANGED config_vars

NoDisk == [yaml |-> <<>>, xlsx |-> <<>>, env |-> <<>>]

NoFactory == <<>>

NoCall == [source |-> <<>>, path |-> "", kwargs |-> <<>>]

InitReader ==
    /\ files \in [Paths -> FileStates]
    /\ cfg \in Cfgs
    /\ op = "new"
    /\ args = NoCall
    /\ ret = None
    /\ made = <<>>
    /\ handled = <<>>
    /\ libcalls = <<>>
    /\ written = <<>>
    /\ disk = NoDisk
    /\ factory = NoFactory
    /\ first = None
    /\ again = FALSE

NextReader ==
    \E source \in Sources, path \in Paths, kwargs \in Options :
        DataReaderFactory_read(source, path, kwargs)

SpecReader == InitReader /\ [][NextReader]_vars

(***************************************************************************)
(* Writers: backend/src/data/writer                                        *)
(***************************************************************************)
DataFrames == {DataFrame(t) : t \in Tables}

\* a dispatch table that registers a writer
writers_dict_csv == [k \in {csv} |-> "CSVWriter"]

\* the dispatch table of DataWriterFactory.write: no entry
writers_dict == [k \in {} |-> "IWriter"]

\* the key DataWriterFactory.write looks up: source.lower()
writer_key(source) == lower(source)

\* IWriter.__init__(cfg): the handler keeps the reference it is given
IWriter(cls, c) == [cls |-> cls, cfg |-> c]

\* DataWriterFactory.write(source, df, path, **kwargs)
DataWriterFactory_write(source, df, path, kwargs) ==
    LET key == writer_key(source)
    IN  /\ op' = "DataWriterFactory.write"
        /\ args' = [source |-> source, path |-> path, kwargs |-> kwargs, df |-> df]
        /\ IF key \notin DOMAIN writers_dict
           THEN /\ ret' = Raise("KeyError")
                /\ made' = <<>>
                /\ handled' = <<>>
                /\ written' = <<>>
           ELSE /\ made' = <<IWriter(writers_dict[key], cfg)>>
                /\ handled' = <<[cls |-> writers_dict[key], method |-> "write",
                                 path |-> path, kwargs |-> kwargs]>>
                /\ written' = <<path>>
                /\ ret' = None
        /\ libcalls' = <<>>
        /\ UNCHANGED <<files, cfg>>
        /\ UNCHANGED config_vars

InitWriter == InitReader

NextWriter ==
    \E source \in Sources, df \in DataFrames, path \in Paths, kwargs \in Options :
        DataWriterFactory_write(source, df, path, kwargs)

SpecWriter == InitWriter /\ [][NextWriter]_vars

(***************************************************************************)
(* Configuration: config/name_space.py                                     *)
(***************************************************************************)
Str(a) == Atom("str", a)

Bool(b) == Atom("bool", IF b THEN <<"T">> ELSE <<"F">>)

Dict(ks, v) == Obj("dict", <<>>, ks, v)

Namespace(ks, v) == Obj("ns", <<>>, ks, v)

EmptyDict == Dict(<<>>, <<>>)

\* the position of key k in a mapping's keys, 0 when absent
KeyIndex(ks, k) == IF \E i \in DOMAIN ks : ks[i] = k
                   THEN CHOOSE i \in DOMAIN ks : ks[i] = k
                   ELSE 0

\* d[k] = x on a dict: an existing key keeps its place and takes the new value
SetItem(d, k, x) ==
    IF KeyIndex(d.ks, k) = 0
    THEN Dict(Append(d.ks, k), Append(d.v, x))
    ELSE Dict(d.ks, [d.v EXCEPT ![KeyIndex(d.ks, k)] = x])

\* o[k]: subscripting raises KeyError on a dict without k, TypeError off a dict
GetItem(o, k) ==
    IF o.t # "dict" THEN Raise("TypeError")
    ELSE IF KeyIndex(o.ks, k) = 0 THEN Raise("KeyError")
    ELSE o.v[KeyIndex(o.ks, k)]

\* a conversion of the outermost mapping only
dict_to_namespace_shallow(map_obj) ==
    IF map_obj.t = "dict"
    THEN IF \E i \in DOMAIN map_obj.ks : map_obj.ks[i].kt # "str"
         THEN Raise("TypeError")
         ELSE Namespace(map_obj.ks, map_obj.v)
    ELSE map_obj

RECURSIVE dict_to_namespace(_)
\* ConfigFactory.dict_to_namespace(map_obj): SimpleNamespace(**{...}) takes string
\* keys only; any other key raises TypeError
dict_to_namespace(map_obj) ==
    IF map_obj.t = "dict"
    THEN LET conv == [i \in DOMAIN map_obj.v |-> dict_to_namespace(map_obj.v[i])]
         IN  IF \E i \in DOMAIN conv : IsRaise(conv[i])
             THEN conv[CHOOSE i \in DOMAIN conv :
                          /\ IsRaise(conv[i])
                          /\ \A j \in 1..(i - 1) : ~IsRaise(conv[j])]
             ELSE IF \E i \in DOMAIN map_obj.ks : map_obj.ks[i].kt # "str"
             THEN Raise("TypeError")
             ELSE Namespace(map_obj.ks, conv)
    ELSE map_obj

Whitespace == {" ", "\t"}

RECURSIVE SplitFrom(_, _, _, _)
SplitFrom(s, i, word, words) ==
    LET closed == IF word = <<>> THEN words ELSE Append(words, word)
    IN  IF i > Len(s) THEN closed
        ELSE IF s[i] \in Whitespace THEN SplitFrom(s, i + 1, <<>>, closed)
        ELSE SplitFrom(s, i + 1, Append(word, s[i]), words)

\* str.split(): the words between runs of whitespace
split(s) == SplitFrom(s, 1, <<>>, <<>>)

RECURSIVE join(_, _)
\* sep.join(words)
join(sep, words) ==
    IF words = <<>> THEN <<>>
    ELSE IF Len(words) = 1 THEN words[1]
    ELSE words[1] \o sep \o join(sep, Tail(words))

\* '_'.join(word.upper() for word in sheet_name.split())
schema_key(sheet_name) ==
    StrKey(join(<<"_">>, [i \in DOMAIN split(sheet_name) |-> upper(split(sheet_name)[i])]))

\* '_'.join(word.capitalize() for word in sheet_name.split())
col_key(sheet_name) ==
    StrKey(join(<<"_">>, [i \in DOMAIN split(sheet_name) |-> capitalize(split(sheet_name)[i])]))

cVariable == <<"V","a","r","i","a","b","l","e">>

cName == <<"N","a","m","e">>

cDerived == <<"I","S"," ","D","e","r","i","v","e","d","?">>

cRead == <<"I","s"," ","R","e","a","d","?">>

\* the frame of one sheet, indexed by its Variable column: one entry per row,
\* holding the sheet's other columns
SheetFrame(sheet) ==
    LET Cells(row) == SelectSeq(<<[c |-> cName, x |-> Str(row.Name)],
                                  [c |-> cDerived, x |-> Bool(row.derived)],
                                  [c |-> cRead, x |-> Bool(row.read)]>>,
                                LAMBDA e : e.c \in sheet.cols)
    IN  Obj("df", <<>>,
            [i \in DOMAIN sheet.rows |-> StrKey(sheet.rows[i].Variable)],
            [i \in DOMAIN sheet.rows |->
                Obj("row", <<>>,
                    [j \in DOMAIN Cells(sheet.rows[i]) |-> StrKey(Cells(sheet.rows[i])[j].c)],
                    [j \in DOMAIN Cells(sheet.rows[i]) |-> Cells(sheet.rows[i])[j].x])])

\* pd.read_excel(io='data/config/schema.xlsx', sheet_name=None, index_col='Variable')
pd_read_excel_sheets(xlsx) ==
    IF xlsx.status = "missing" THEN Raise("FileNotFoundError")
    ELSE IF xlsx.status = "malformed" THEN Raise("ValueError")
    ELSE IF \E i \in DOMAIN xlsx.sheets : cVariable \notin xlsx.sheets[i].cols
    THEN Raise("ValueError")
    ELSE Dict([i \in DOMAIN xlsx.sheets |-> StrKey(xlsx.sheets[i].name)],
              [i \in DOMAIN xlsx.sheets |-> SheetFrame(xlsx.sheets[i])])

\* schema_df[column]
Column(schema_df, column) ==
    IF \E i \in DOMAIN schema_df.v : KeyIndex(schema_df.v[i].ks, StrKey(column)) = 0
    THEN Raise("KeyError")
    ELSE Obj("series", <<>>, schema_df.ks,
             [i \in DOMAIN schema_df.v |-> GetItem(Dict(schema_df.v[i].ks, schema_df.v[i].v),
                                                   StrKey(column))])

RECURSIVE SeriesToDict(_, _, _, _)
\* Series.to_dict() of the selected rows: a repeated index keeps its last value
SeriesToDict(series, keep, i, d) ==
    IF i > Len(series.v) THEN d
    ELSE SeriesToDict(series, keep, i + 1,
                      IF keep[i] THEN SetItem(d, series.ks[i], series.v[i]) ELSE d)

\* schema_df.loc[schema_df['IS Derived?'] | schema_df['Is Read?'], 'Name'].to_dict()
col_names(schema_df) ==
    LET derived == Column(schema_df, cDerived)
        read    == Column(schema_df, cRead)
        name    == Column(schema_df, cName)
    IN  IF IsRaise(derived) THEN derived
        ELSE IF IsRaise(read) THEN read
        ELSE IF IsRaise(name) THEN name
        ELSE SeriesToDict(name,
                          [i \in DOMAIN name.v |-> derived.v[i] = Bool(TRUE) \/ read.v[i] = Bool(TRUE)],
                          1, EmptyDict)

RECURSIVE SheetLoop(_, _, _, _)
\* the loop of initialize() over the sheets: [err, schema_dict, col_dict]
SheetLoop(sheets, i, schema_dict, col_dict) ==
    IF i > Len(sheets.v)
    THEN [err |-> None, schema_dict |-> schema_dict, col_dict |-> col_dict]
    ELSE LET sheet_name == sheets.ks[i].k
             schema_df  == sheets.v[i]
             names      == col_names(schema_df)
         IN  IF IsRaise(names)
             THEN [err |-> names, schema_dict |-> schema_dict, col_dict |-> col_dict]
             ELSE SheetLoop(sheets, i + 1,
                            SetItem(schema_dict, schema_key(sheet_name), schema_df),
                            SetItem(col_dict, col_key(sheet_name), names))

kSchema == StrKey(<<"S","c","h","e","m","a">>)

kCol == StrKey(<<"C","o","l">>)

kPath == StrKey(<<"P","a","t","h">>)

kSecret == StrKey(<<"S","e","c","r","e","t">>)

kParam == StrKey(<<"P","a","r","a","m">>)

kENV == StrKey(<<"E","N","V">>)

\* the names bound at module level in name_space.py: its import statements
Globals == {"SimpleNamespace", "os", "dotenv_values", "safe_load", "Template"}

\* open(self.yaml_path, 'r') and safe_load(stream=yaml_file)
safe_load_file(yaml) ==
    IF yaml.status = "missing" THEN Raise("FileNotFoundError")
    ELSE IF yaml.status = "malformed" THEN Raise("YAMLError")
    ELSE yaml.doc

\* dotenv_values(dotenv_path=p): a path that is no file yields no pairs
dotenv_values(env, p) ==
    IF p.t # "str" THEN Raise("TypeError")
    ELSE IF p.a \notin DOMAIN env THEN EmptyDict
    ELSE IF env[p.a].status = "missing" THEN EmptyDict
    ELSE IF env[p.a].status = "unreadable" THEN Raise("PermissionError")
    ELSE env[p.a].pairs

\* the dict display of initialize(), its items evaluated in order
ns_dict(yaml_dict, schema_dict, col_dict, env) ==
    LET path   == GetItem(yaml_dict, kPath)
        envp   == GetItem(path, kENV)
        secret == dotenv_values(env, envp)
        param  == GetItem(yaml_dict, kParam)
    IN  IF IsRaise(path) THEN path
        ELSE IF IsRaise(envp) THEN envp
        ELSE IF IsRaise(secret) THEN secret
        ELSE IF IsRaise(param) THEN param
        ELSE Dict(<<kSchema, kCol, kPath, kSecret, kParam>>,
                  <<schema_dict, col_dict, path, secret, param>>)

\* an initialize() that answers an unreadable YAML file with an empty namespace
initialize_lenient(d) ==
    IF IsRaise(safe_load_file(d.yaml)) THEN Namespace(<<>>, <<>>) ELSE Raise("NameError")

\* ConfigFactory.initialize(): the value returned, or the exception raised
initialize(d) ==
    LET yaml_dict == safe_load_file(d.yaml)
    IN  IF IsRaise(yaml_dict) THEN yaml_dict
        ELSE IF "pd" \notin Globals THEN Raise("NameError")
        ELSE LET sheets == pd_read_excel_sheets(d.xlsx)
             IN  IF IsRaise(sheets) THEN sheets
                 ELSE LET loop == SheetLoop(sheets, 1, EmptyDict, EmptyDict)
                      IN  IF IsRaise(loop.err) THEN loop.err
                          ELSE LET nd == ns_dict(yaml_dict, loop.schema_dict,
                                                 loop.col_dict, d.env)
                               IN  IF IsRaise(nd) THEN nd
                                   ELSE dict_to_namespace(nd)

\* an initialize() that keeps its result on the factory
factory_keeps_result(f, r) == [yaml_path |-> f.yaml_path, cfg |-> r]

\* the attributes of the factory after initialize(): the method assigns none
factory_after_initialize(f, r) == f

\* ConfigFactory.__init__(yaml_path)
ConfigFactory(yaml_path) == [yaml_path |-> Str(yaml_path)]

\* ConfigFactory.initialize()
ConfigFactory_initialize ==
    LET r == initialize(disk)
    IN  /\ op' = "ConfigFactory.initialize"
        /\ args' = NoCall
        /\ ret' = r
        /\ factory' = factory_after_initialize(factory, r)
        /\ first' = IF first = None THEN r ELSE first
        /\ again' = (first # None)
        /\ UNCHANGED <<disk, data_vars>>

\* ConfigFactory.dict_to_namespace(map_obj), called on its own
ConfigFactory_dict_to_namespace(map_obj) ==
    /\ op' = "ConfigFactory.dict_to_namespace"
    /\ args' = [map_obj |-> map_obj]
    /\ ret' = dict_to_namespace(map_obj)
    /\ UNCHANGED <<disk, factory, first, again, data_vars>>

(***************************************************************************)
(* The configuration inputs the model draws from                           *)
(***************************************************************************)
sSecretsEnv == <<"s","e","c","r","e","t","s",".","e","n","v">>

sOtherEnv == <<"o","t","h","e","r",".","e","n","v">>

List(v) == Obj("list", <<>>, <<>>, v)

Num(a) == Atom("int", a)

kK == StrKey(<<"k">>)

kN == StrKey(<<"n">>)

kDATA == StrKey(<<"D","A","T","A">>)

YamlDocs ==
    { Dict(<<kPath, kParam>>,
           <<Dict(<<kENV>>, <<Str(sSecretsEnv)>>), Dict(<<kK>>, <<Num(<<"7">>)>>)>>),
      Dict(<<kParam, kPath>>,
           <<Dict(<<kK, kN>>, <<Dict(<<kN>>, <<Str(<<"x">>)>>), Num(<<"8">>)>>),
             Dict(<<kDATA, kENV>>, <<Str(<<"d","a","t","a">>), Str(sOtherEnv)>>)>>),
      Dict(<<kPath, kParam>>,
           <<Dict(<<kENV>>, <<Str(sSecretsEnv)>>),
             Dict(<<kK>>, <<List(<<Dict(<<kN>>, <<Num(<<"7">>)>>)>>)>>)>>),
      Dict(<<kPath, kParam>>,
           <<Dict(<<kENV>>, <<Str(sSecretsEnv)>>), Dict(<<IntKey(<<"1">>)>>, <<Str(<<"x">>)>>)>>),
      Dict(<<kPath, kParam>>,
           <<Dict(<<kDATA>>, <<Str(<<"d","a","t","a">>)>>), Dict(<<kK>>, <<Num(<<"7">>)>>)>>),
      Dict(<<kParam>>, <<Dict(<<kK>>, <<Num(<<"7">>)>>)>>),
      Dict(<<kPath>>, <<Dict(<<kENV>>, <<Str(sSecretsEnv)>>)>>),
      None }

YamlFiles == {[status |-> "missing", doc |-> None], [status |-> "malformed", doc |-> None]}
             \cup {[status |-> "ok", doc |-> y] : y \in YamlDocs}

Row(variable, name, derived, read) ==
    [Variable |-> variable, Name |-> name, derived |-> derived, read |-> read]

RowsOne == <<Row(<<"i","d">>, <<"I","d">>, FALSE, FALSE),
             Row(<<"n","m">>, <<"F","u","l","l"," ","N","a","m","e">>, FALSE, TRUE),
             Row(<<"x">>, <<"X">>, FALSE, FALSE)>>

RowsNone == <<Row(<<"i","d">>, <<"I","d">>, FALSE, FALSE), Row(<<"n","m">>, <<"F","u","l","l"," ","N","a","m","e">>, FALSE, FALSE)>>

RowsAll == <<Row(<<"i","d">>, <<"I","d">>, TRUE, FALSE),
             Row(<<"n","m">>, <<"F","u","l","l"," ","N","a","m","e">>, TRUE, TRUE),
             Row(<<"i","d">>, <<"I","d"," ","a","g","a","i","n">>, FALSE, TRUE)>>

AllCols == {cVariable, cName, cDerived, cRead}

Sheet(name, cols, rows) == [name |-> name, cols |-> cols, rows |-> rows]

nAccountName == <<"A","c","c","o","u","n","t"," ","N","a","m","e">>

nOrders == <<"o","r","d","e","r","s">>

Workbooks ==
    { <<Sheet(nAccountName, AllCols, RowsOne)>>,
      <<Sheet(nAccountName, AllCols, RowsNone)>>,
      <<Sheet(nAccountName, AllCols, RowsOne), Sheet(nOrders, AllCols, RowsAll)>>,
      <<Sheet(nAccountName, AllCols, RowsOne), Sheet(<<"A","C","C","O","U","N","T"," "," ","n","a","m","e">>, AllCols, RowsNone)>>,
      <<Sheet(<<" ","s","a","l","e","s"," ","b","y"," "," ","R","E","G","I","O","N"," ">>, AllCols, RowsAll)>>,
      <<Sheet(nOrders, AllCols \ {cVariable}, RowsOne)>>,
      <<Sheet(nOrders, AllCols \ {cRead}, RowsOne)>>,
      <<Sheet(nOrders, AllCols \ {cName}, RowsOne)>> }

XlsxFiles == {[status |-> "missing", sheets |-> <<>>], [status |-> "malformed", sheets |-> <<>>]}
             \cup {[status |-> "ok", sheets |-> w] : w \in Workbooks}

EnvFile(status, pairs) == [status |-> status, pairs |-> pairs]

SecretPairs == Dict(<<StrKey(<<"A","P","I","_","K","E","Y">>)>>, <<Str(<<"s","3">>)>>)

OtherPairs == Dict(<<StrKey(<<"T","O","K","E","N">>)>>, <<Str(<<"t">>)>>)

EnvDirs ==
    { [p \in {sSecretsEnv, sOtherEnv} |-> IF p = sSecretsEnv THEN e ELSE EnvFile("ok", OtherPairs)] :
        e \in {EnvFile("missing", EmptyDict), EnvFile("unreadable", EmptyDict),
               EnvFile("ok", SecretPairs)} }

yaml_path == <<"c","f","g",".","y","a","m","l">>

InitConfig ==
    /\ disk \in [yaml : YamlFiles, xlsx : XlsxFiles, env : EnvDirs]
    /\ factory = ConfigFactory(yaml_path)
    /\ first = None
    /\ again = FALSE
    /\ op = "new"
    /\ args = NoCall
    /\ ret = None
    /\ files = <<>>
    /\ cfg = ""
    /\ made = <<>>
    /\ handled = <<>>
    /\ libcalls = <<>>
    /\ written = <<>>

NextConfig == ConfigFactory_initialize

SpecConfig == InitConfig /\ [][NextConfig]_vars

(***************************************************************************)
(* The objects dict_to_namespace is applied to                             *)
(***************************************************************************)
\* the most nodes (leaves and containers) an argument may have
MaxNodes == 3

Leaves == {Num(<<"7">>), Str(<<"x">>)}

Keys == {kK, kN, IntKey(<<"1">>)}

\* the keys of a mapping: pairwise different
KeySeqs(n) == {ks \in [1..n -> Keys] : \A i, j \in 1..n : ks[i] = ks[j] => i = j}

RECURSIVE Trees(_)
RECURSIVE Forests(_)
\* the sequences of objects with at most n nodes in all
Forests(n) ==
    {<<>>} \cup UNION {{<<t>> \o s : t \in Trees(m), s \in Forests(n - m)} : m \in 1..n}

\* the leaves, lists and dicts with at most n nodes
Trees(n) ==
    IF n = 0 THEN {}
    ELSE Leaves
         \cup {List(s) : s \in Forests(n - 1)}
         \cup UNION {{Dict(ks, s) : ks \in KeySeqs(Len(s))} : s \in Forests(n - 1)}

Values == Trees(MaxNodes)

InitNamespace ==
    /\ disk = NoDisk
    /\ factory = ConfigFactory(yaml_path)
    /\ first = None
    /\ again = FALSE
    /\ op = "new"
    /\ args = [map_obj |-> None]
    /\ ret = None
    /\ files = <<>>
    /\ cfg = ""
    /\ made = <<>>
    /\ handled = <<>>
    /\ libcalls = <<>>
    /\ written = <<>>

NextNamespace == \E map_obj \in Values : ConfigFactory_dict_to_namespace(map_obj)

SpecNamespace == InitNamespace /\ [][NextNamespace]_vars

(***************************************************************************)
(* Properties of the reader factory (SpecReader)                           *)
(***************************************************************************)
ReadCalled == op = "DataReaderFactory.read"

Supported == {csv, excel}

\* C1: a format name that lower-cases to csv or excel makes read() construct
\* exactly one handler of the matching class with the factory's cfg and invoke
\* its read exactly once with the path and the options as given.
C1_DispatchToHandler ==
    (ReadCalled /\ lower(args.source) \in Supported) =>
        LET cls == IF lower(args.source) = csv THEN "CSVReader" ELSE "ExcelReader"
        IN  /\ made = <<[cls |-> cls, cfg |-> cfg]>>
            /\ handled = <<[cls |-> cls, method |-> "read",
                            path |-> args.path, kwargs |-> args.kwargs]>>

C1_Witness ==
    /\ ReadCalled
    /\ args.source = <<"E","x","c","e","L">>
    /\ args.kwargs = <<"sheet_name">>
    /\ Len(made) = 1
    /\ Len(handled) = 1

\* C2: a format name that does not lower-case to csv or excel makes read() raise
\* KeyError with no handler constructed, no handler method invoked and no
\* library file access made.
C2_UnknownFormatFails ==
    (ReadCalled /\ lower(args.source) \notin Supported) =>
        /\ ret = Raise("KeyError")
        /\ made = <<>>
        /\ handled = <<>>
        /\ libcalls = <<>>

C2_Witness ==
    /\ ReadCalled
    /\ args.source = <<"j","s","o","n">>
    /\ ret = Raise("KeyError")

\* C3: a read() that does not raise returns the table loaded from the path.
C3_ReturnsLoadedTable ==
    (ReadCalled /\ ~IsRaise(ret)) => ret = DataFrame(files[args.path].table)

(***************************************************************************)
(* Properties of the writer factory (SpecWriter)                           *)
(***************************************************************************)
WriteCalled == op = "DataWriterFactory.write"

\* C4: write() raises KeyError for every format name, constructs no writer,
\* invokes none, writes to no path, and leaves the factory's cfg and the files
\* as they were.
C4_WriterAlwaysFails ==
    /\ [](WriteCalled => /\ ret = Raise("KeyError")
                         /\ made = <<>>
                         /\ handled = <<>>
                         /\ written = <<>>)
    /\ [][cfg' = cfg /\ files' = files]_vars

C4_Witness ==
    /\ WriteCalled
    /\ args.source = <<"C","S","V">>
    /\ ret = Raise("KeyError")

(***************************************************************************)
(* Properties of the configuration factory (SpecConfig)                    *)
(***************************************************************************)
InitializeCalled == op = "ConfigFactory.initialize"

RECURSIVE StringKeyed(_)
\* every mapping reached through mappings has string keys only
StringKeyed(x) ==
    x.t = "dict" => /\ \A i \in DOMAIN x.ks : x.ks[i].kt = "str"
                    /\ \A i \in DOMAIN x.v : StringKeyed(x.v[i])

RECURSIVE Mirrors(_, _)
\* y is x with every mapping reached through mappings turned into an
\* attribute-accessible object with the same keys, everything else as it was
Mirrors(x, y) ==
    IF x.t = "dict"
    THEN /\ y.t = "ns"
         /\ y.ks = x.ks
         /\ DOMAIN y.v = DOMAIN x.v
         /\ \A i \in DOMAIN x.v : Mirrors(x.v[i], y.v[i])
    ELSE y = x

\* o.k on an attribute-accessible object
Attr(o, k) ==
    IF o.t = "ns" /\ KeyIndex(o.ks, k) # 0 THEN o.v[KeyIndex(o.ks, k)]
    ELSE Raise("AttributeError")

YamlPath == GetItem(disk.yaml.doc, kPath)

YamlEnv == GetItem(YamlPath, kENV)

\* the inputs the specification calls good: a YAML document with a Path block
\* naming ENV and a Param block, a spreadsheet whose sheets have all four
\* columns, and a readable secrets file at Path.ENV
GoodInputs ==
    /\ disk.yaml.status = "ok"
    /\ StringKeyed(disk.yaml.doc)
    /\ YamlEnv.t = "str"
    /\ ~IsRaise(GetItem(disk.yaml.doc, kParam))
    /\ disk.xlsx.status = "ok"
    /\ \A i \in DOMAIN disk.xlsx.sheets : disk.xlsx.sheets[i].cols = AllCols
    /\ YamlEnv.a \in DOMAIN disk.env
    /\ disk.env[YamlEnv.a].status = "ok"

\* the inputs C6 calls bad
BadInputs ==
    \/ disk.yaml.status \in {"missing", "malformed"}
    \/ disk.xlsx.status \in {"missing", "malformed"}
    \/ \E i \in DOMAIN disk.xlsx.sheets : disk.xlsx.sheets[i].cols # AllCols
    \/ IsRaise(YamlEnv)
    \/ /\ YamlEnv.t = "str"
       /\ YamlEnv.a \in DOMAIN disk.env
       /\ disk.env[YamlEnv.a].status \in {"missing", "unreadable"}

\* C5: with good, unchanged inputs a repeated initialize() returns a namespace
\* equal to the one the first call returned.
C5_Idempotent ==
    (InitializeCalled /\ again /\ GoodInputs) => (ret.t = "ns" /\ ret = first)

SnakeKey(sheet_name, Case(_)) ==
    StrKey(join(<<"_">>, [i \in DOMAIN split(sheet_name) |-> Case(split(sheet_name)[i])]))

Flagged(sheet) == {i \in DOMAIN sheet.rows : sheet.rows[i].derived \/ sheet.rows[i].read}

\* C7: with good inputs initialize() returns a namespace that holds, for every
\* sheet, the whole sheet under Schema.<UPPER_SNAKE name> and, under
\* Col.<Capitalized_Snake name>, the Name of exactly the rows flagged
\* 'IS Derived?' or 'Is Read?', by column identifier.
C7_SheetEntries ==
    (InitializeCalled /\ GoodInputs) =>
        \A i \in DOMAIN disk.xlsx.sheets :
            LET sheet == disk.xlsx.sheets[i]
                col   == Attr(Attr(ret, kCol), SnakeKey(sheet.name, capitalize))
            IN  /\ Attr(Attr(ret, kSchema), SnakeKey(sheet.name, upper)) = SheetFrame(sheet)
                /\ col.t = "ns"
                /\ \A r \in Flagged(sheet) :
                       \E q \in Flagged(sheet) :
                           /\ sheet.rows[q].Variable = sheet.rows[r].Variable
                           /\ Attr(col, StrKey(sheet.rows[r].Variable)) = Str(sheet.rows[q].Name)
                /\ \A j \in DOMAIN col.ks :
                       \E r \in Flagged(sheet) : col.ks[j] = StrKey(sheet.rows[r].Variable)

\* C8: with good inputs initialize() returns a namespace with exactly the groups
\* Schema, Col, Path, Secret and Param, whose Path and Param carry the YAML
\* blocks (so Path.ENV is the YAML value) and whose Secret carries the pairs of
\* the secrets file at Path.ENV.
C8_TopLevelGroups ==
    (InitializeCalled /\ GoodInputs) =>
        /\ ret.t = "ns"
        /\ {ret.ks[i] : i \in DOMAIN ret.ks} = {kSchema, kCol, kPath, kSecret, kParam}
        /\ Len(ret.ks) = Cardinality({kSchema, kCol, kPath, kSecret, kParam})
        /\ Mirrors(YamlPath, Attr(ret, kPath))
        /\ Attr(Attr(ret, kPath), kENV) = YamlEnv
        /\ Mirrors(GetItem(disk.yaml.doc, kParam), Attr(ret, kParam))
        /\ Mirrors(disk.env[YamlEnv.a].pairs, Attr(ret, kSecret))

\* the factory holds a namespace in one of its attributes
Initialized == \E a \in DOMAIN factory : factory[a].t = "ns"

ConvertCalled == op = "ConfigFactory.dict_to_namespace"

RECURSIVE HasDict(_)
\* a mapping is left somewhere in x, at any depth, inside any container
HasDict(x) == x.t = "dict" \/ \E i \in DOMAIN x.v : HasDict(x.v[i])

\* C10 as claimed: no mapping is left anywhere in what dict_to_namespace
\* returns, lists included.
C10_NoMapRemains == (ConvertCalled /\ ~IsRaise(ret)) => ~HasDict(ret)

\* C10 as amended: dict_to_namespace turns the argument, when it is a mapping,
\* and every mapping reached from it through mapping values only into an
\* attribute-accessible object with the same keys, and returns everything
\* else unchanged, a list with the mappings inside it included; when one of
\* those mappings has a key that is not a string the call raises TypeError.
C10_MapsReachedThroughMaps ==
    ConvertCalled =>
        IF StringKeyed(args.map_obj)
        THEN Mirrors(args.map_obj, ret)
        ELSE ret = Raise("TypeError")

C10_Witness ==
    /\ ConvertCalled
    /\ args.map_obj = Dict(<<kK>>, <<List(<<EmptyDict>>)>>)
    /\ ret = Namespace(<<kK>>, <<List(<<EmptyDict>>)>>)

====
